---- MODULE Spec2Model ----
(***************************************************************************)
(* A model of spree/spree.py: the Spree connection, the Resource base      *)
(* class with its six variants, and Pagination.                            *)
(*                                                                         *)
(* Python values are tagged records (None / int / str) so that '%s' and    *)
(* '%d' formatting and truthiness are computed as Python computes them.    *)
(* Dictionaries are functions from key strings to values.  Dictionaries    *)
(* that outlive one call (the caller's filters mapping, the caller's data  *)
(* mapping and the two default-argument dictionaries of Shipment.ready and *)
(* Shipment.ship) live in `heap', and are passed around by reference.      *)
(* The remote server is the environment: every request is answered with a  *)
(* status drawn from a small set and a decoded JSON body.  The listing the *)
(* server pages through (`server') is fixed when the session starts; the   *)
(* envelope answered to a find reports the page that was asked for.        *)
(***************************************************************************)
EXTENDS Integers, Sequences, FiniteSets, TLC

VARIABLES handle, server, heap, pre, pag, yielded, last

vars == <<handle, server, heap, pre, pag, yielded, last>>

(***************************************************************************)
(* Bounds of the model.                                                    *)
(***************************************************************************)
MaxItems == 2      \* largest `count' and largest items array in an envelope
MaxPage == 2       \* largest `current_page' and `pages' in an envelope
MaxKeys == 2       \* number of distinct keys a caller's data mapping may use
MaxMatches == 2    \* largest `variants' array answered to Variant.get

(***************************************************************************)
(* Python values.                                                          *)
(***************************************************************************)
PyNone == [t |-> "none"]
PyInt(n) == [t |-> "int", v |-> n]
PyStr(s) == [t |-> "str", v |-> s]

Digits == <<"0", "1", "2", "3", "4", "5", "6", "7", "8", "9">>

RECURSIVE IntStr(_)
IntStr(n) == IF n < 10 THEN Digits[n + 1]
             ELSE IntStr(n \div 10) \o Digits[(n % 10) + 1]

\* '%s' % x
Fmt_s(x) == CASE x.t = "none" -> "None"
              [] x.t = "int" -> IntStr(x.v)
              [] x.t = "str" -> x.v

\* '%d' % x is defined for numbers only (TypeError otherwise)
Fmt_d_ok(x) == x.t = "int"
Fmt_d(x) == IntStr(x.v)

\* bool(x)
Truthy(x) == CASE x.t = "none" -> FALSE
               [] x.t = "int" -> x.v # 0
               [] x.t = "str" -> x.v # ""

EmptyDict == <<>>

\* d.update(e): the keys of e win
DictUpdate(d, e) == e @@ d

\* d without key k (d.pop(k))
DictPop(d, k) == [x \in (DOMAIN d) \ {k} |-> d[x]]

\* d[k] = v
DictSet(d, k, v) == (k :> v) @@ d

(***************************************************************************)
(* Spree: the connection and its accessors.                                *)
(***************************************************************************)
BaseUrl == "http://shop/api"

Handle(cls, arg) == [cls |-> cls, arg |-> arg, per_page |-> 25]

product == Handle("Product", PyNone)
order == Handle("Order", PyNone)
stock_locations == Handle("StockLocation", PyNone)
get_stock_item(location_id) == Handle("StockItem", location_id)
variant(product_id) == Handle("Variant", product_id)
shipment(order_number) == Handle("Shipment", order_number)

(***************************************************************************)
(* Resource and its variants: path, url, item_attribute.                   *)
(***************************************************************************)
StockItem_path(self) == "/stock_locations/" \o Fmt_d(self.arg) \o "/stock_items"

Variant_path(self) == "/products/" \o Fmt_s(self.arg) \o "/variants"

Shipment_path(self) == "/orders/" \o Fmt_s(self.arg) \o "/shipments"

path(self) == CASE self.cls = "Product" -> "/products"
                [] self.cls = "Order" -> "/orders"
                [] self.cls = "StockLocation" -> "/stock_locations"
                [] self.cls = "StockItem" -> StockItem_path(self)
                [] self.cls = "Variant" -> Variant_path(self)
                [] self.cls = "Shipment" -> Shipment_path(self)

item_attribute(self) == CASE self.cls = "Product" -> "products"
                          [] self.cls = "Order" -> "orders"
                          [] self.cls = "StockLocation" -> "stock_locations"
                          [] self.cls = "StockItem" -> "stock_items"
                          [] self.cls = "Variant" -> "variants"
                          [] self.cls = "Shipment" -> "shipments"

url(self) == BaseUrl \o path(self)

(***************************************************************************)
(* Response validation.  raise_for_status is the HTTP library's: it raises *)
(* HTTPError for a status from 400 to 599 and returns otherwise.           *)
(***************************************************************************)
\* faulty variant: only server errors raise
raise_for_status_server_only(status_code) == 500 <= status_code /\ status_code < 600

raise_for_status(status_code) == 400 <= status_code /\ status_code < 600

\* faulty variant: the 404 test is missing, so 404 falls through to raise_for_status
validate_response_no_404(status_code) ==
    IF raise_for_status(status_code) THEN "HTTPError" ELSE "ok"

validate_response(status_code) ==
    IF status_code = 404 THEN "ResourceNotFound"
    ELSE IF raise_for_status(status_code) THEN "HTTPError"
    ELSE "ok"

(***************************************************************************)
(* Payload shaping.  A load_payload result is [err, payload, data]: the    *)
(* exception raised ("" when none), the mapping returned, and the caller's *)
(* mapping as the call leaves it.                                          *)
(***************************************************************************)
Shaped(err, payload, data) == [err |-> err, payload |-> payload, data |-> data]

Resource_load_payload(data) == Shaped("", data, data)

\* the fields Product.load_payload copies when present, in the code's order
ProductOptional == <<"price", "shipping_category_id", "sku", "description",
                     "display_price", "available_on", "meta_description",
                     "meta_keywords", "weight", "height", "width", "depth",
                     "cost_price">>

ProductKey(f) == "product[" \o f \o "]"

RECURSIVE ProductCopy(_, _, _)
ProductCopy(payload, data, i) ==
    IF i > Len(ProductOptional) THEN payload
    ELSE LET f == ProductOptional[i]
         IN  ProductCopy(IF f \in DOMAIN data
                         THEN DictSet(payload, ProductKey(f), data[f])
                         ELSE payload,
                         data, i + 1)

Product_load_payload(data) ==
    IF "name" \notin DOMAIN data
    THEN Shaped("KeyError", EmptyDict, data)
    ELSE Shaped("", ProductCopy(ProductKey("name") :> data["name"], data, 1), data)

StockItem_load_payload(data) ==
    LET p1 == IF "count_on_hand" \in DOMAIN data
              THEN DictSet(EmptyDict, "stock_item[count_on_hand]", data["count_on_hand"])
              ELSE EmptyDict
        p2 == IF "force" \in DOMAIN data
              THEN DictSet(p1, "stock_item[force]", data["force"])
              ELSE p1
    IN  Shaped("", p2, data)

\* Shipment.load_payload renames in place and returns the same mapping
Shipment_load_payload(data) ==
    LET d1 == IF "tracking" \in DOMAIN data
              THEN DictSet(DictPop(data, "tracking"), "shipment[tracking]", data["tracking"])
              ELSE data
        d2 == IF "number" \in DOMAIN d1
              THEN DictSet(DictPop(d1, "number"), "shipment[number]", d1["number"])
              ELSE d1
    IN  Shaped("", d2, d2)

load_payload(self, data) ==
    CASE self.cls = "Product" -> Product_load_payload(data)
      [] self.cls = "StockItem" -> StockItem_load_payload(data)
      [] self.cls = "Shipment" -> Shipment_load_payload(data)
      [] OTHER -> Resource_load_payload(data)

(***************************************************************************)
(* The session: one request record per HTTP call.  params / data are the   *)
(* keyword arguments of session.get/post/put/delete; the flags tell        *)
(* whether the keyword was passed at all.                                  *)
(***************************************************************************)
Request(method, target, hasParams, params, hasData, data) ==
    [method |-> method, url |-> target, hasParams |-> hasParams,
     params |-> params, hasData |-> hasData, data |-> data]

session_get(target) == Request("GET", target, FALSE, EmptyDict, FALSE, EmptyDict)
session_get_params(target, params) == Request("GET", target, TRUE, params, FALSE, EmptyDict)
session_post(target, data) == Request("POST", target, FALSE, EmptyDict, TRUE, data)
session_put(target, data) == Request("PUT", target, FALSE, EmptyDict, TRUE, data)
session_put_params(target, params) == Request("PUT", target, TRUE, params, FALSE, EmptyDict)
session_delete(target) == Request("DELETE", target, FALSE, EmptyDict, FALSE, EmptyDict)

(***************************************************************************)
(* The remote server (environment): statuses and decoded JSON bodies.      *)
(***************************************************************************)
Statuses == {200, 304, 400, 404, 500}

Items(n) == [i \in 1..n |-> "item" \o IntStr(i)]

\* the list envelope: count, current_page, pages and the array under the item key
Envelope(self, count, n, current_page, pages) ==
    ("count" :> count) @@ ("current_page" :> current_page) @@ ("pages" :> pages)
    @@ (item_attribute(self) :> Items(n))

\* the listings a server may hold: the count it reports for a page, the number
\* of items it really sends, and the number of pages
Listings == [count : 0..MaxItems, n : 0..MaxItems, pages : 1..MaxPage]

\* the envelope answered to a request for page pg
Listing(self, pg) == Envelope(self, server.count, server.n, pg, server.pages)

\* a detail / create / update / delete body: one decoded object
Object == [t |-> "object"]

\* the body answered to GET /variants?q[id_eq]=id
Matches(self, n) == (item_attribute(self) :> [i \in 1..n |-> "variant" \o IntStr(i)])

\* the body is read only when validation passes
MatchBodies(self, status) ==
    IF validate_response(status) = "ok" THEN {Matches(self, n) : n \in 0..MaxMatches}
    ELSE {Matches(self, 0)}

(***************************************************************************)
(* Pagination.                                                             *)
(***************************************************************************)
NoPag == [t |-> "none"]

\* Pagination.__init__; filters is "None" or the reference of the mapping passed
Pagination(data, items_attribute, resource, filters) ==
    [t |-> "Pagination", data |-> data, items |-> data[items_attribute],
     current_index |-> -1, resource |-> resource, filters |-> filters]

count(self) == self.data["count"]
page(self) == self.data["current_page"]
pages(self) == self.data["pages"]

\* faulty variant: the last page still claims a successor
has_next_inclusive(self) == pages(self) >= page(self)

has_next(self) == pages(self) > page(self)

(***************************************************************************)
(* What a call leaves behind: the requests it issued, the status and the   *)
(* decoded body received (0 and None when no response was received), how   *)
(* it ended ("returned" or the exception raised) and the value returned;   *)
(* with them the receiver at entry (a handle or a Pagination), the         *)
(* argument (id, shipment number or page) and the reference of the mapping *)
(* passed ("None" when none was).                                          *)
(***************************************************************************)
Returned(v) == [outcome |-> "returned", ret |-> v]
Raised(e) == [outcome |-> e, ret |-> PyNone]

Call(op, self, arg, ref, reqs, status, body, end) ==
    [op |-> op, self |-> self, arg |-> arg, ref |-> ref, reqs |-> reqs,
     status |-> IF reqs = <<>> THEN 0 ELSE status,
     body |-> IF reqs = <<>> THEN PyNone ELSE body,
     outcome |-> end.outcome, ret |-> end.ret]

(***************************************************************************)
(* The methods.  Each takes the heap `h' at call entry and the server's    *)
(* answer, and gives [heap, reqs, end]: the heap at exit, the requests     *)
(* issued and how the call ended.                                          *)
(***************************************************************************)
Exit(h, reqs, end) == [heap |-> h, reqs |-> reqs, end |-> end]

\* the tail shared by get / create / update / delete: validate, then response.json()
Decode(status, body) ==
    IF validate_response(status) = "ok" THEN Returned(body)
    ELSE Raised(validate_response(status))

\* Resource.find; filters is "None" or the reference "filters" of the caller's mapping
Resource_find(self, pg, filters, h, status, body) ==
    LET aliased == filters # "None" /\ h[filters] # EmptyDict
        params == DictUpdate(IF aliased THEN h[filters] ELSE EmptyDict,
                             ("page" :> pg) @@ ("per_page" :> self.per_page))
        h1 == IF aliased THEN [h EXCEPT ![filters] = params] ELSE h
        v == validate_response(status)
    IN  Exit(h1, <<session_get_params(url(self), params)>>,
             IF v = "ok"
             THEN Returned(Pagination(body, item_attribute(self), self, filters))
             ELSE Raised(v))

Resource_get(self, id, h, status, body) ==
    Exit(h, <<session_get(url(self) \o "/" \o Fmt_s(id))>>, Decode(status, body))

Resource_create(self, dref, h, status, body) ==
    LET shaped == load_payload(self, h[dref])
    IN  IF shaped.err # "" THEN Exit(h, <<>>, Raised(shaped.err))
        ELSE Exit([h EXCEPT ![dref] = shaped.data],
                  <<session_post(url(self), shaped.payload)>>, Decode(status, body))

Resource_update(self, id, dref, h, status, body) ==
    IF ~Fmt_d_ok(id) THEN Exit(h, <<>>, Raised("TypeError"))
    ELSE LET shaped == load_payload(self, h[dref])
         IN  IF shaped.err # "" THEN Exit(h, <<>>, Raised(shaped.err))
             ELSE Exit([h EXCEPT ![dref] = shaped.data],
                       <<session_put(url(self) \o "/" \o Fmt_d(id), shaped.payload)>>,
                       Decode(status, body))

Resource_delete(self, id, h, status, body) ==
    IF ~Fmt_d_ok(id) THEN Exit(h, <<>>, Raised("TypeError"))
    ELSE Exit(h, <<session_delete(url(self) \o "/" \o Fmt_d(id))>>, Decode(status, body))

\* faulty variant: takes the first match instead of unpacking exactly one
Variant_get_first(self, id, h, status, body) ==
    IF ~Truthy(self.arg)
    THEN LET v == validate_response(status)
             found == body[item_attribute(self)]
         IN  Exit(h, <<session_get_params(BaseUrl \o "/variants", "q[id_eq]" :> id.v)>>,
                  IF v # "ok" THEN Raised(v)
                  ELSE IF Len(found) >= 1 THEN Returned(PyStr(found[1]))
                  ELSE Raised("ValueError"))
    ELSE Resource_get(self, id, h, status, body)

\* Variant.get: body is the list body when product_id is falsy, the object otherwise
Variant_get(self, id, h, status, body) ==
    IF ~Truthy(self.arg)
    THEN LET v == validate_response(status)
             found == body[item_attribute(self)]
         IN  Exit(h, <<session_get_params(BaseUrl \o "/variants", "q[id_eq]" :> id.v)>>,
                  IF v # "ok" THEN Raised(v)
                  ELSE IF Len(found) = 1 THEN Returned(PyStr(found[1]))
                  ELSE Raised("ValueError"))
    ELSE Resource_get(self, id, h, status, body)

\* faulty variant: reads data['path'] without popping it
Shipment_update_keep_path(self, shipment_number, dref, h, status, body) ==
    LET data == h[dref]
        override == "path" \in DOMAIN data /\ data["path"] # ""
        target == IF override THEN data["path"]
                  ELSE url(self) \o "/" \o Fmt_s(shipment_number)
        shaped == load_payload(self, data)
    IN  Exit([h EXCEPT ![dref] = shaped.data],
             <<session_put_params(target, shaped.payload)>>, Decode(status, body))

\* Shipment.update: data is the reference of the mapping passed
Shipment_update(self, shipment_number, dref, h, status, body) ==
    LET data == h[dref]
        override == "path" \in DOMAIN data /\ data["path"] # ""
        target == IF override THEN data["path"]
                  ELSE url(self) \o "/" \o Fmt_s(shipment_number)
        shaped == load_payload(self, IF override THEN DictPop(data, "path") ELSE data)
    IN  Exit([h EXCEPT ![dref] = shaped.data],
             <<session_put_params(target, shaped.payload)>>, Decode(status, body))

\* data['path'] = self.url + '/%s' % shipment_number + suffix
SetPath(self, shipment_number, suffix, dref, h) ==
    [h EXCEPT ![dref] =
        DictSet(h[dref], "path", url(self) \o "/" \o Fmt_s(shipment_number) \o suffix)]

Shipment_ready(self, shipment_number, dref, h, status, body) ==
    Shipment_update(self, shipment_number, dref,
                    SetPath(self, shipment_number, "/ready", dref, h), status, body)

Shipment_ship(self, shipment_number, dref, h, status, body) ==
    Shipment_update(self, shipment_number, dref,
                    SetPath(self, shipment_number, "/ship", dref, h), status, body)

Shipment_add(self, shipment_number, dref, h, status, body) ==
    Shipment_update(self, shipment_number, dref,
                    SetPath(self, shipment_number, "/add", dref, h), status, body)

Shipment_remove(self, shipment_number, dref, h, status, body) ==
    Shipment_update(self, shipment_number, dref,
                    SetPath(self, shipment_number, "/remove", dref, h), status, body)

\* faulty variant: an exhausted Pagination starts over
Pagination_next_restart(self) ==
    IF self.current_index < count(self) - 1
    THEN LET moved == [self EXCEPT !.current_index = self.current_index + 1]
         IN  [self |-> moved,
              end |-> IF moved.current_index < Len(moved.items)
                      THEN Returned(PyStr(moved.items[moved.current_index + 1]))
                      ELSE Raised("IndexError")]
    ELSE [self |-> [self EXCEPT !.current_index = -1], end |-> Raised("StopIteration")]

\* list[index]: the position (from 1) a Python index designates in a list,
\* counting from the end when negative; 0 when it is out of range
ListIndex(items, index) ==
    IF 0 <= index /\ index < Len(items) THEN index + 1
    ELSE IF index < 0 /\ -index <= Len(items) THEN Len(items) + index + 1
    ELSE 0

\* Pagination.__setitem__: [self, end]; items is the very list held in data
\* under the item key, so the element is replaced in both
Pagination_setitem(self, index, value) ==
    LET k == ListIndex(self.items, index)
        key == item_attribute(self.resource)
    IN  IF k = 0 THEN [self |-> self, end |-> Raised("IndexError")]
        ELSE [self |-> [self EXCEPT !.items[k] = value, !.data[key][k] = value],
              end |-> Returned(PyNone)]

\* Pagination.next: [self, end]
Pagination_next(self) ==
    IF self.current_index < count(self) - 1
    THEN LET moved == [self EXCEPT !.current_index = self.current_index + 1]
         IN  [self |-> moved,
              end |-> IF moved.current_index < Len(moved.items)
                      THEN Returned(PyStr(moved.items[moved.current_index + 1]))
                      ELSE Raised("IndexError")]
    ELSE [self |-> self, end |-> Raised("StopIteration")]

\* Pagination.next_page: the exit of the find it delegates to, and the receiver
Pagination_next_page(self, h, status, body) ==
    [self |-> self,
     exit |-> IF has_next(self)
              THEN Resource_find(self.resource, page(self) + 1, self.filters,
                                 h, status, body)
              ELSE Exit(h, <<>>, Returned(PyNone))]

(***************************************************************************)
(* The caller (environment): the handle it obtained from the connection    *)
(* and the arguments it passes.                                            *)
(***************************************************************************)
Ids == {PyInt(42)}

ShipmentNumbers == {PyStr("H123456789")}

OrderNumbers == {PyStr("R100"), PyStr("R200")}

Handles == {product, order, stock_locations, get_stock_item(PyInt(3)),
            variant(PyNone), variant(PyInt(7))}
           \cup {shipment(o) : o \in OrderNumbers}

FilterInputs == {EmptyDict, "q[name_cont]" :> "shirt"}

KeyPool(cls) ==
    CASE cls = "Product" -> <<"name", "price", "color", "cost_price", "sku">>
      [] cls = "StockItem" -> <<"count_on_hand", "force", "color", "note", "lot">>
      [] cls = "Shipment" -> <<"tracking", "path", "number", "note", "lot">>
      [] OTHER -> <<"email", "note", "color", "lot", "state">>

Val(k) == "<" \o k \o ">"

DataInputs(cls) ==
    {[k \in ks |-> Val(k)] : ks \in SUBSET {KeyPool(cls)[i] : i \in 1..MaxKeys}}

\* the caller passes None, its mapping as it stands ("reuse"), or its mapping
\* after clearing it and filling it with c ("fresh")
Passed(h, ref, mode, c) == IF mode = "fresh" THEN [h EXCEPT ![ref] = c] ELSE h

Modes == {"None", "reuse", "fresh"}

\* the indexes and the value the caller uses with p[index] = value: the last
\* element, the first, and one that is out of range on every array
Indexes == {-1, 0, MaxItems}

Values == {"CHANGED"}

(***************************************************************************)
(* The state, and one action per method.                                   *)
(***************************************************************************)
InitWith(handles, listings) ==
    /\ handle \in handles
    /\ server \in listings
    /\ heap = [filters |-> EmptyDict, data |-> EmptyDict,
               ready_default |-> EmptyDict, ship_default |-> EmptyDict]
    /\ pre = heap
    /\ pag = NoPag
    /\ yielded = <<>>
    /\ last = Call("init", PyNone, PyNone, "None", <<>>, 0, PyNone, Returned(PyNone))

\* what every call does to the heap and to the record of the last call
Finish(op, self, arg, ref, h0, x, status, body) ==
    /\ pre' = h0
    /\ heap' = x.heap
    /\ last' = Call(op, self, arg, ref, x.reqs, status, body, x.end)

\* find(page, filters) with the page drawn from pgs
find_page(pgs) ==
    \E pg \in pgs, mode \in Modes, c \in FilterInputs, status \in Statuses :
        /\ mode # "fresh" => c = EmptyDict
        /\ LET h0 == Passed(heap, "filters", mode, c)
               ref == IF mode = "None" THEN "None" ELSE "filters"
               x == Resource_find(handle, pg, ref, h0, status, Listing(handle, pg))
           IN  Finish("find", handle, PyInt(pg), ref, h0, x, status, Listing(handle, pg))
        /\ UNCHANGED <<handle, server, pag, yielded>>

find == find_page(1..MaxPage)

\* find(filters=...): the page argument left at its default
find_default == find_page({1})

get ==
    \E id \in Ids, status \in Statuses :
      \E body \in IF handle.cls = "Variant" /\ ~Truthy(handle.arg)
                  THEN MatchBodies(handle, status) ELSE {Object} :
        /\ LET x == IF handle.cls = "Variant"
                    THEN Variant_get(handle, id, heap, status, body)
                    ELSE Resource_get(handle, id, heap, status, body)
           IN  Finish("get", handle, id, "None", heap, x, status, body)
        /\ UNCHANGED <<handle, server, pag, yielded>>

create ==
    \E mode \in Modes \ {"None"}, c \in DataInputs(handle.cls), status \in Statuses :
        /\ mode # "fresh" => c = EmptyDict
        /\ LET h0 == Passed(heap, "data", mode, c)
               x == Resource_create(handle, "data", h0, status, Object)
           IN  Finish("create", handle, PyNone, "data", h0, x, status, Object)
        /\ UNCHANGED <<handle, server, pag, yielded>>

update ==
    \E id \in IF handle.cls = "Shipment" THEN ShipmentNumbers ELSE Ids,
       mode \in Modes \ {"None"}, c \in DataInputs(handle.cls), status \in Statuses :
        /\ mode # "fresh" => c = EmptyDict
        /\ LET h0 == Passed(heap, "data", mode, c)
               x == IF handle.cls = "Shipment"
                    THEN Shipment_update(handle, id, "data", h0, status, Object)
                    ELSE Resource_update(handle, id, "data", h0, status, Object)
           IN  Finish("update", handle, id, "data", h0, x, status, Object)
        /\ UNCHANGED <<handle, server, pag, yielded>>

delete ==
    \E id \in Ids, status \in Statuses :
        /\ LET x == Resource_delete(handle, id, heap, status, Object)
           IN  Finish("delete", handle, id, "None", heap, x, status, Object)
        /\ UNCHANGED <<handle, server, pag, yielded>>

\* ready(n) and ship(n) without data use the function's default-argument mapping
ready ==
    \E n \in ShipmentNumbers, mode \in Modes, c \in DataInputs(handle.cls),
       status \in Statuses :
        /\ handle.cls = "Shipment"
        /\ mode # "fresh" => c = EmptyDict
        /\ LET ref == IF mode = "None" THEN "ready_default" ELSE "data"
               h0 == Passed(heap, "data", mode, c)
               x == Shipment_ready(handle, n, ref, h0, status, Object)
           IN  Finish("ready", handle, n, ref, h0, x, status, Object)
        /\ UNCHANGED <<handle, server, pag, yielded>>

ship ==
    \E n \in ShipmentNumbers, mode \in Modes, c \in DataInputs(handle.cls),
       status \in Statuses :
        /\ handle.cls = "Shipment"
        /\ mode # "fresh" => c = EmptyDict
        /\ LET ref == IF mode = "None" THEN "ship_default" ELSE "data"
               h0 == Passed(heap, "data", mode, c)
               x == Shipment_ship(handle, n, ref, h0, status, Object)
           IN  Finish("ship", handle, n, ref, h0, x, status, Object)
        /\ UNCHANGED <<handle, server, pag, yielded>>

add ==
    \E n \in ShipmentNumbers, mode \in Modes \ {"None"}, c \in DataInputs(handle.cls),
       status \in Statuses :
        /\ handle.cls = "Shipment"
        /\ mode # "fresh" => c = EmptyDict
        /\ LET h0 == Passed(heap, "data", mode, c)
               x == Shipment_add(handle, n, "data", h0, status, Object)
           IN  Finish("add", handle, n, "data", h0, x, status, Object)
        /\ UNCHANGED <<handle, server, pag, yielded>>

remove ==
    \E n \in ShipmentNumbers, mode \in Modes \ {"None"}, c \in DataInputs(handle.cls),
       status \in Statuses :
        /\ handle.cls = "Shipment"
        /\ mode # "fresh" => c = EmptyDict
        /\ LET h0 == Passed(heap, "data", mode, c)
               x == Shipment_remove(handle, n, "data", h0, status, Object)
           IN  Finish("remove", handle, n, "data", h0, x, status, Object)
        /\ UNCHANGED <<handle, server, pag, yielded>>

\* Spree.shipment: the caller asks the connection for another order's handle
new_shipment ==
    \E o \in OrderNumbers :
        /\ handle.cls = "Shipment"
        /\ handle # shipment(o)
        /\ handle' = shipment(o)
        /\ UNCHANGED <<server, heap, pre, pag, yielded, last>>

next ==
    /\ pag # NoPag
    /\ LET x == Pagination_next(pag)
       IN  /\ pag' = x.self
           /\ yielded' = IF x.end.outcome = "returned"
                         THEN Append(yielded, x.end.ret.v) ELSE yielded
           /\ last' = Call("next", pag, PyNone, "None", <<>>, 0, PyNone, x.end)
    /\ pre' = heap
    /\ UNCHANGED <<handle, server, heap>>

setitem ==
    /\ pag # NoPag
    /\ \E index \in Indexes, value \in Values :
        LET x == Pagination_setitem(pag, index, value)
        IN  /\ pag' = x.self
            /\ last' = Call("setitem", pag, PyInt(index), "None", <<>>, 0, PyNone, x.end)
    /\ pre' = heap
    /\ UNCHANGED <<handle, server, heap, yielded>>

\* pag = <the Pagination the last call returned>: the caller starts working
\* with the page it was handed
keep ==
    /\ last.outcome = "returned"
    /\ last.ret.t = "Pagination"
    /\ pag # last.ret
    /\ pag' = last.ret
    /\ yielded' = <<>>
    /\ last' = Call("keep", PyNone, PyNone, "None", <<>>, 0, PyNone, Returned(PyNone))
    /\ pre' = heap
    /\ UNCHANGED <<handle, server, heap>>

next_page ==
    /\ pag # NoPag
    /\ \E status \in Statuses :
        /\ LET body == Listing(pag.resource, page(pag) + 1)
               x == Pagination_next_page(pag, heap, status, body)
           IN  /\ Finish("next_page", pag, PyNone, pag.filters, heap, x.exit, status, body)
               /\ pag' = x.self
        /\ UNCHANGED <<handle, server, yielded>>

(***************************************************************************)
(* Specifications.  Spec: a caller working with the records of one         *)
(* resource (every Resource and Shipment method, on every kind of handle). *)
(* SpecPagination: a caller paging through a listing (find from the       *)
(* first page, next, p[i] = v, next_page) that the server holds in any of  *)
(* its shapes.                                                             *)
(***************************************************************************)
PlainListing == [count |-> MaxItems, n |-> MaxItems, pages |-> MaxPage]

Next == find \/ get \/ create \/ update \/ delete
        \/ ready \/ ship \/ add \/ remove \/ new_shipment

Init == InitWith(Handles, {PlainListing})

Spec == Init /\ [][Next]_vars

InitPagination == InitWith({product}, Listings)

NextPagination == find_default \/ keep \/ next \/ setitem \/ next_page

SpecPagination == InitPagination /\ [][NextPagination]_vars

(***************************************************************************)
(* Properties of the resource operations (specification Spec).             *)
(***************************************************************************)
ResourceOps == {"find", "get", "create", "update", "delete",
                "ready", "ship", "add", "remove"}

Responded == last.op \in ResourceOps /\ last.status # 0

Is2xx(status_code) == 200 <= status_code /\ status_code <= 299

\* C1: a response with status 404 makes the operation fail with
\* ResourceNotFound: it does not fail with the generic HTTP error and it
\* returns no value.
C1_NotFound ==
    (Responded /\ last.status = 404)
        => (last.outcome = "ResourceNotFound" /\ last.ret = PyNone)

\* a Shipment.ship call was answered 404 and raised ResourceNotFound
C1_Witness ==
    /\ last.op = "ship"
    /\ last.status = 404
    /\ last.outcome = "ResourceNotFound"

\* C2 as stated: every status outside 2xx other than 404 makes the operation
\* fail with the generic HTTP error, and a value is returned only for 2xx.
C2_AsStated ==
    Responded =>
        /\ (~Is2xx(last.status) /\ last.status # 404) => last.outcome = "HTTPError"
        /\ last.outcome = "returned" => Is2xx(last.status)

\* C2 amended: the generic HTTP error is raised exactly for the statuses from
\* 400 to 599 other than 404; for every other status (1xx, 2xx, 3xx) no HTTP
\* error is raised, and a value is returned only for such a status.
C2_HttpError ==
    Responded =>
        /\ last.outcome = "HTTPError"
              <=> (400 <= last.status /\ last.status <= 599 /\ last.status # 404)
        /\ last.outcome = "returned" => (last.status < 400 \/ last.status > 599)
        /\ (last.status < 400 \/ last.status > 599)
              => last.outcome \notin {"HTTPError", "ResourceNotFound"}

\* a get was answered 304, outside 2xx, and returned the decoded body
C2_Witness ==
    /\ last.op = "get"
    /\ last.status = 304
    /\ last.outcome = "returned"
    /\ last.ret = last.body

\* the whitelist of Product fields, as the documentation lists it
Whitelist == {"name", "price", "shipping_category_id", "sku", "description",
              "display_price", "available_on", "meta_description",
              "meta_keywords", "weight", "height", "width", "depth", "cost_price"}

\* product[f] |-> input[f] for the whitelisted fields f the input holds
Whitelisted(input) ==
    LET fs == Whitelist \cap DOMAIN input
    IN  [k \in {"product[" \o f \o "]" : f \in fs} |->
            input[CHOOSE f \in fs : "product[" \o f \o "]" = k]]

\* C5: for every input mapping given to Product.create or Product.update the
\* payload sent holds product[f], with the input's value, for exactly the
\* whitelisted fields f present in the input.
C5_ProductPayload ==
    (last.op \in {"create", "update"} /\ last.self.cls = "Product")
        => /\ Len(last.reqs) = 1
           /\ last.reqs[1].hasData
           /\ last.reqs[1].data = Whitelisted(pre.data)

\* what the code does hold to: whenever a payload is sent it is the whitelisted one
C5_WhenSent ==
    (last.op \in {"create", "update"} /\ last.self.cls = "Product" /\ last.reqs # <<>>)
        => /\ "name" \in DOMAIN pre.data
           /\ last.reqs[1].hasData
           /\ last.reqs[1].data = Whitelisted(pre.data)

\* the reference rename of Shipment payload keys
Renamed(k) == CASE k = "tracking" -> "shipment[tracking]"
                [] k = "number" -> "shipment[number]"
                [] OTHER -> k

\* the caller's mapping as query parameters: every key but 'path', renamed
AsQuery(input) ==
    LET ks == (DOMAIN input) \ {"path"}
    IN  [q \in {Renamed(k) : k \in ks} |-> input[CHOOSE k \in ks : Renamed(k) = q]]

\* C6: whatever Shipment calls came before, ship(n) / ready(n) issue one PUT to
\* baseUrl/orders/{orderNumber}/shipments/n/ship (resp. /ready), with no
\* request body; without a data argument the query parameters are empty, and
\* with caller data they are the caller's data, never with a 'path' key.
C6_ShipReady ==
    last.op \in {"ship", "ready"}
        => /\ Len(last.reqs) = 1
           /\ last.reqs[1].method = "PUT"
           /\ last.reqs[1].url = BaseUrl \o "/orders/" \o last.self.arg.v \o "/shipments/"
                                    \o last.arg.v \o "/" \o last.op
           /\ ~last.reqs[1].hasData
           /\ last.reqs[1].hasParams
           /\ "path" \notin DOMAIN last.reqs[1].params
           /\ last.ref \in {"ship_default", "ready_default"}
                 => last.reqs[1].params = EmptyDict
           /\ last.ref = "data" => last.reqs[1].params = AsQuery(pre.data)

\* ship(n) without data, on another order's handle than the one an earlier
\* call with caller data went through
C6_Witness ==
    /\ last.op = "ship"
    /\ last.ref = "ship_default"
    /\ "shipment[tracking]" \in DOMAIN heap.data
    /\ last.self = shipment(PyStr("R200"))
    /\ last.reqs[1].url = "http://shop/api/orders/R200/shipments/H123456789/ship"

\* C7: a Variant handle without productId targets baseUrl/variants, one with
\* productId p targets baseUrl/products/p/variants (plus /id where an id
\* applies).
C7_VariantPath ==
    (last.op \in {"find", "create", "update", "delete"} /\ last.self.cls = "Variant"
       /\ last.reqs # <<>>)
        => LET base == IF last.self.arg = PyNone THEN BaseUrl \o "/variants"
                       ELSE BaseUrl \o "/products/" \o IntStr(last.self.arg.v)
                                    \o "/variants"
           IN  last.reqs[1].url = IF last.op \in {"update", "delete"}
                                  THEN base \o "/" \o IntStr(last.arg.v)
                                  ELSE base

\* C8: Variant.get(id) without productId issues one GET to baseUrl/variants
\* with q[id_eq]=id; on 2xx it returns the single element of 'variants' when
\* there is exactly one and fails otherwise.  With a productId it issues a GET
\* to baseUrl/products/{productId}/variants/id and returns the decoded body.
C8_VariantGet ==
    (last.op = "get" /\ last.self.cls = "Variant")
        => /\ Len(last.reqs) = 1
           /\ last.reqs[1].method = "GET"
           /\ IF last.self.arg = PyNone
              THEN /\ last.reqs[1].url = BaseUrl \o "/variants"
                   /\ last.reqs[1].hasParams
                   /\ last.reqs[1].params = ("q[id_eq]" :> last.arg.v)
                   /\ Is2xx(last.status) =>
                        IF Len(last.body["variants"]) = 1
                        THEN /\ last.outcome = "returned"
                             /\ last.ret = PyStr(last.body["variants"][1])
                        ELSE /\ last.outcome \notin {"returned", "HTTPError",
                                                     "ResourceNotFound"}
                             /\ last.ret = PyNone
              ELSE /\ last.reqs[1].url = BaseUrl \o "/products/"
                                           \o IntStr(last.self.arg.v) \o "/variants/"
                                           \o IntStr(last.arg.v)
                   /\ ~last.reqs[1].hasParams
                   /\ Is2xx(last.status) =>
                        (last.outcome = "returned" /\ last.ret = last.body)

\* the id filter matched two variants and the call failed
C8_Witness ==
    /\ last.op = "get"
    /\ last.self = variant(PyNone)
    /\ last.status = 200
    /\ Len(last.body["variants"]) = 2
    /\ last.outcome = "ValueError"

\* C9: find sends filters plus page and per_page and leaves the caller's
\* filters mapping with exactly the pairs it had before the call.
C9_FiltersUntouched ==
    last.op = "find"
        => /\ Len(last.reqs) = 1
           /\ last.reqs[1].params =
                  DictUpdate(IF last.ref = "None" THEN EmptyDict ELSE pre.filters,
                             ("page" :> last.arg.v) @@ ("per_page" :> 25))
           /\ heap.filters = pre.filters

\* C10: every resource operation issues exactly one HTTP request per call,
\* whether it returns or fails.
C10_OneRequest == last.op \in ResourceOps => Len(last.reqs) = 1

(***************************************************************************)
(* Properties of Pagination (specification SpecPagination).                *)
(***************************************************************************)
\* C3 as stated: pulling with next() yields items[0] .. items[count-1] in
\* order (the k-th pull yields items[k-1] as it stands at that pull), then
\* signals exhaustion; pulls after exhaustion signal exhaustion
\* again, yield nothing, leave current_index alone and issue no request.
IterationContract ==
    /\ last.outcome \in {"returned", "StopIteration"}
    /\ last.reqs = <<>>
    /\ heap = pre
    /\ Len(yielded) <= pag.data["count"]
    /\ pag.current_index = Len(yielded) - 1
    /\ last.outcome = "returned"
          => /\ pag.current_index = last.self.current_index + 1
             /\ last.ret = PyStr(pag.items[Len(yielded)])
             /\ yielded[Len(yielded)] = pag.items[Len(yielded)]
             /\ pag.items = last.self.items
    /\ last.outcome = "StopIteration"
          => (Len(yielded) = pag.data["count"] /\ pag = last.self)

C3_AsStated == last.op = "next" => IterationContract

\* C3 amended: the same, for every Pagination whose items array holds at
\* least `count' elements.
C3_Iteration ==
    (last.op = "next" /\ pag.data["count"] <= Len(pag.items)) => IterationContract

\* both items of a page of two were yielded and the next pull signalled exhaustion
C3_Witness ==
    /\ last.op = "next"
    /\ last.outcome = "StopIteration"
    /\ pag.data["count"] = 2
    /\ yielded = <<"item1", "item2">>

\* C4: when pages > page is false next_page() returns nothing and issues no
\* request; when it is true next_page() issues exactly one find on the owner
\* resource with page + 1 and the same filters and returns a new Pagination;
\* either way the Pagination it was called on keeps its current_index and items.
C4_NextPage ==
    last.op = "next_page" =>
        LET self == last.self
        IN  /\ pag = self
            /\ IF self.data["pages"] > self.data["current_page"]
               THEN /\ Len(last.reqs) = 1
                    /\ last.reqs[1].method = "GET"
                    /\ last.reqs[1].url = url(self.resource)
                    /\ last.reqs[1].params =
                         DictUpdate(IF self.filters = "None" THEN EmptyDict
                                    ELSE pre[self.filters],
                                    ("page" :> self.data["current_page"] + 1)
                                    @@ ("per_page" :> self.resource.per_page))
                    /\ last.outcome = "returned"
                          => /\ last.ret.t = "Pagination"
                             /\ last.ret.data = last.body
                             /\ last.ret.current_index = -1
                             /\ last.ret.resource = self.resource
                             /\ last.ret.filters = self.filters
               ELSE /\ last.reqs = <<>>
                    /\ last.outcome = "returned"
                    /\ last.ret = PyNone
                    /\ heap = pre

\* a Pagination that has yielded its first item and was found with the
\* caller's filters is asked for its next page and returns a new one
C4_Witness ==
    /\ last.op = "next_page"
    /\ last.outcome = "returned"
    /\ last.ret # PyNone
    /\ pag.current_index = 0
    /\ pag.filters = "filters"
    /\ "q[name_cont]" \in DOMAIN last.reqs[1].params

====
